---- MODULE Spec2Model ----
(***************************************************************************)
(* Super KPI API (src/main.py): a FastAPI application over two relational  *)
(* tables, kpi_master (the catalog of KPI definitions) and kpi_updates     *)
(* (the submissions), with a bearer-token gate on the mutating routes.     *)
(*                                                                         *)
(* Spec     : every route handler is one atomic action.                    *)
(* ConcSpec : POST /kpi/update split into its database round trips, run by *)
(*            several connections at once.                                 *)
(***************************************************************************)
EXTENDS Naturals, Sequences, FiniteSets, TLC

VARIABLES
    API_TOKEN,      \* process-wide secret, read once from the environment
    kpi_master,     \* table kpi_master: set of rows
    kpi_updates,    \* table kpi_updates: set of committed rows
    next_id,        \* next value of the sequence behind kpi_updates.id
    response,       \* the HTTP response of the last request served
    conn,           \* per connection: position of its add_kpi_update handler
    insert_log      \* ids in the order the INSERT statements were executed

vars == <<API_TOKEN, kpi_master, kpi_updates, next_id, response, conn, insert_log>>

----------------------------------------------------------------------------
(* Bounds *)

MaxRows == 2        \* the sequence hands out at most this many ids
NumConns == 2       \* connections of ConcSpec

----------------------------------------------------------------------------
(* Values *)

\* Python None / SQL NULL / an absent header; a present value v is <<v>>.
None == <<>>
Some(v) == <<v>>

\* What an f-string makes of a value: None is rendered as the text "None".
Str(v) == IF v = None THEN "None" ELSE v[1]

Tokens == {None, Some("s3cr3t")}
Headers == {None, Some("Bearer s3cr3t"), Some("Bearer None")}

Slugs == {"ict", "hr"}
KpiIds == {1, 2, 99}
Periods == {"2024-01"}
Values == {"75"}
Links == {"http://ev"}
Notes == {"ok"}
Reviewers == {"manager"}
Timestamps == {"2024-02-01T00:00:00"}
ReviewStatuses == {"approved", "rejected", "pending"}
UpdateIds == 1..(MaxRows + 1)
Conns == 1..NumConns

\* Provisioned out-of-band; the spec's scenario catalog (KPI 1 of ict, KPI 2 of hr).
Catalog ==
    { [kpi_id |-> 1, fungsi_slug |-> "ict", kpi_name |-> "Uptime", iku |-> "IKU-1",
       program_prioritas |-> "P1", bobot |-> 50, target |-> "80", unit |-> "%",
       is_active |-> TRUE],
      [kpi_id |-> 2, fungsi_slug |-> "hr", kpi_name |-> "Training", iku |-> "IKU-2",
       program_prioritas |-> "P2", bobot |-> 50, target |-> "12", unit |-> "jam",
       is_active |-> TRUE] }

\* Body of POST /kpi/update together with its Authorization header.
KPIUpdateRequest ==
    [authorization : Headers, kpi_id : KpiIds, fungsi_slug : Slugs, period : Periods,
     value : Values, link_evidence : Links, note : Notes]

\* Body of POST /kpi/review/{update_id} together with path parameter and header.
ReviewRequest ==
    [authorization : Headers, update_id : UpdateIds, status : ReviewStatuses,
     reviewed_by : Reviewers, now : Timestamps]

Idle == [pc |-> "idle"]

----------------------------------------------------------------------------
(* Access control gate *)

\* TRUE iff the dependency lets the request through (does not raise 401).
verify_token(authorization) ==
    ~ (authorization # Some("Bearer " \o Str(API_TOKEN)))

----------------------------------------------------------------------------
(* Queries *)

\* db.query(KPIMaster).filter(KPIMaster.kpi_id == id).first()
FirstKpi_any(master, id) ==
    IF master = {} THEN None ELSE Some(CHOOSE k \in master : TRUE)

FirstKpi(master, id) ==
    LET hits == {k \in master : k.kpi_id = id}
    IN  IF hits = {} THEN None ELSE Some(CHOOSE k \in hits : TRUE)

\* db.query(KPIMaster).filter(KPIMaster.fungsi_slug == slug).all()
KpiByFungsi(master, slug) == {k \in master : k.fungsi_slug = slug}

UpdatesByFungsi_pending(updates, slug) ==
    {u \in updates : u.fungsi_slug = slug /\ u.status = "submitted"}

\* db.query(KPIUpdates).filter(KPIUpdates.fungsi_slug == slug).all()
UpdatesByFungsi(updates, slug) == {u \in updates : u.fungsi_slug = slug}

----------------------------------------------------------------------------
(* POST /kpi/update *)

SlugMismatch_never(kpi, request) == FALSE

SlugMismatch_inverted(kpi, request) == kpi.fungsi_slug = request.fungsi_slug

\* kpi.fungsi_slug != request.fungsi_slug
SlugMismatch(kpi, request) == kpi.fungsi_slug # request.fungsi_slug

NewUpdate_mixup(request, id) ==
    [id |-> id, kpi_id |-> request.kpi_id, fungsi_slug |-> request.fungsi_slug,
     period |-> request.period, value |-> request.note,
     link_evidence |-> request.link_evidence, note |-> request.note,
     status |-> "submitted", reviewed_by |-> None, reviewed_at |-> None]

NewUpdate_pending(request, id) ==
    [id |-> id, kpi_id |-> request.kpi_id, fungsi_slug |-> request.fungsi_slug,
     period |-> request.period, value |-> request.value,
     link_evidence |-> request.link_evidence, note |-> request.note,
     status |-> "pending", reviewed_by |-> None, reviewed_at |-> None]

\* KPIUpdates(...) as flushed: id from the sequence, nullable columns NULL.
NewUpdate(request, id) ==
    [id |-> id, kpi_id |-> request.kpi_id, fungsi_slug |-> request.fungsi_slug,
     period |-> request.period, value |-> request.value,
     link_evidence |-> request.link_evidence, note |-> request.note,
     status |-> "submitted", reviewed_by |-> None, reviewed_at |-> None]

nextval_reuse(seq) == IF seq > 1 THEN seq - 1 ELSE seq

\* The value the autoincrement primary key draws from its sequence.
nextval(seq) == seq

InsertRow_upsert(updates, row) ==
    {u \in updates : ~ (u.kpi_id = row.kpi_id /\ u.period = row.period)} \cup {row}

InsertRow_latest(updates, row) ==
    {u \in updates : u.kpi_id # row.kpi_id} \cup {row}

\* INSERT INTO kpi_updates: the only key is the primary key id.
InsertRow(updates, row) == updates \cup {row}

HTTPException(op, code, detail) ==
    [op |-> op, status_code |-> code, body |-> [detail |-> detail]]

SubmitOk(update) ==
    [op |-> "add_kpi_update", status_code |-> 200,
     body |-> [message |-> "KPI update berhasil", id |-> update.id,
               fungsi_slug |-> update.fungsi_slug, status |-> update.status]]

add_kpi_update(request) ==
    /\ UNCHANGED <<API_TOKEN, kpi_master, conn>>
    /\ IF ~ verify_token(request.authorization)
       THEN /\ response' = HTTPException("add_kpi_update", 401, "Unauthorized")
            /\ UNCHANGED <<kpi_updates, next_id, insert_log>>
       ELSE LET kpi == FirstKpi(kpi_master, request.kpi_id) IN
            IF kpi = None
            THEN /\ response' = HTTPException("add_kpi_update", 404, "KPI not found")
                 /\ UNCHANGED <<kpi_updates, next_id, insert_log>>
            ELSE IF SlugMismatch(kpi[1], request)
            THEN /\ response' = HTTPException("add_kpi_update", 403,
                                    "Tidak boleh update KPI milik fungsi lain")
                 /\ UNCHANGED <<kpi_updates, next_id, insert_log>>
            ELSE /\ next_id <= MaxRows
                 /\ LET update == NewUpdate(request, nextval(next_id)) IN
                    /\ kpi_updates' = InsertRow(kpi_updates, update)
                    /\ next_id' = next_id + 1
                    /\ insert_log' = Append(insert_log, update.id)
                    \* db.refresh(update) reads the row back
                    /\ response' = SubmitOk(CHOOSE u \in kpi_updates' : u.id = update.id)

----------------------------------------------------------------------------
(* POST /kpi/review/{update_id} *)

review(request) ==
    /\ UNCHANGED <<API_TOKEN, kpi_master, next_id, conn, insert_log>>
    /\ IF ~ verify_token(request.authorization)
       THEN /\ response' = HTTPException("review", 401, "Unauthorized")
            /\ UNCHANGED kpi_updates
       ELSE LET hits == {u \in kpi_updates : u.id = request.update_id} IN
            IF hits = {}
            THEN /\ response' = HTTPException("review", 404, "Update not found")
                 /\ UNCHANGED kpi_updates
            ELSE IF request.status \notin {"approved", "rejected"}
            THEN /\ response' = HTTPException("review", 400, "Invalid status")
                 /\ UNCHANGED kpi_updates
            ELSE LET update == CHOOSE u \in hits : TRUE
                     reviewed == [update EXCEPT !.status = request.status,
                                                !.reviewed_by = Some(request.reviewed_by),
                                                !.reviewed_at = Some(request.now)]
                 IN  /\ kpi_updates' = (kpi_updates \ {update}) \cup {reviewed}
                     /\ response' = [op |-> "review", status_code |-> 200,
                                     body |-> [id |-> reviewed.id,
                                               status |-> reviewed.status]]

----------------------------------------------------------------------------
(* Read routes: no dependency on verify_token *)

Read(op, body) ==
    /\ response' = [op |-> op, status_code |-> 200, body |-> body]
    /\ UNCHANGED <<API_TOKEN, kpi_master, kpi_updates, next_id, conn, insert_log>>

root(authorization) == Read("root", [message |-> "Super KPI API running"])

get_kpi(authorization) == Read("get_kpi", kpi_master)

get_kpi_by_fungsi(authorization, fungsi_slug) ==
    Read("get_kpi_by_fungsi", KpiByFungsi(kpi_master, fungsi_slug))

get_kpi_updates_by_fungsi(authorization, fungsi_slug) ==
    Read("get_kpi_updates_by_fungsi", UpdatesByFungsi(kpi_updates, fungsi_slug))

get_kpi_master_by_fungsi(authorization, fungsi_slug) ==
    Read("get_kpi_master_by_fungsi", KpiByFungsi(kpi_master, fungsi_slug))

----------------------------------------------------------------------------
(* Sequential specification *)

Init ==
    /\ API_TOKEN \in Tokens
    /\ kpi_master = Catalog
    /\ kpi_updates = {}
    /\ next_id = 1
    /\ response = [op |-> "none", status_code |-> 0, body |-> None]
    /\ conn = [c \in Conns |-> Idle]
    /\ insert_log = <<>>

Next ==
    \/ \E request \in KPIUpdateRequest : add_kpi_update(request)
    \/ \E request \in ReviewRequest : review(request)
    \/ \E h \in Headers : root(h)
    \/ \E h \in Headers : get_kpi(h)
    \/ \E h \in Headers, s \in Slugs : get_kpi_by_fungsi(h, s)
    \/ \E h \in Headers, s \in Slugs : get_kpi_updates_by_fungsi(h, s)
    \/ \E h \in Headers, s \in Slugs : get_kpi_master_by_fungsi(h, s)

Spec == Init /\ [][Next]_vars

----------------------------------------------------------------------------
(* POST /kpi/update, one database round trip per step, on connection c *)

ConcHeaders == {None, Some("Bearer s3cr3t")}
ConcValues == {"75", "80"}
ConcRequest ==
    [authorization : ConcHeaders, kpi_id : KpiIds, fungsi_slug : Slugs, period : Periods,
     value : ConcValues, link_evidence : Links, note : Notes]

Done(request, resp) == [pc |-> "done", request |-> request, response |-> resp]

\* The dependencies (get_db, verify_token) are resolved before the handler body.
Receive(c, request) ==
    /\ conn[c].pc = "idle"
    /\ conn' = [conn EXCEPT ![c] =
                 IF ~ verify_token(request.authorization)
                 THEN Done(request, HTTPException("add_kpi_update", 401, "Unauthorized"))
                 ELSE [pc |-> "lookup", request |-> request]]
    /\ UNCHANGED <<API_TOKEN, kpi_master, kpi_updates, next_id, response, insert_log>>

Lookup(c) ==
    /\ conn[c].pc = "lookup"
    /\ LET request == conn[c].request
           kpi == FirstKpi(kpi_master, request.kpi_id)
       IN  conn' = [conn EXCEPT ![c] =
                 IF kpi = None
                 THEN Done(request, HTTPException("add_kpi_update", 404, "KPI not found"))
                 ELSE [pc |-> "check", request |-> request, kpi |-> kpi[1]]]
    /\ UNCHANGED <<API_TOKEN, kpi_master, kpi_updates, next_id, response, insert_log>>

Check(c) ==
    /\ conn[c].pc = "check"
    /\ LET request == conn[c].request IN
       conn' = [conn EXCEPT ![c] =
                 IF SlugMismatch(conn[c].kpi, request)
                 THEN Done(request, HTTPException("add_kpi_update", 403,
                                       "Tidak boleh update KPI milik fungsi lain"))
                 ELSE [pc |-> "insert", request |-> request]]
    /\ UNCHANGED <<API_TOKEN, kpi_master, kpi_updates, next_id, response, insert_log>>

\* db.commit() first flushes: INSERT ... RETURNING id, inside the open transaction.
Insert(c) ==
    /\ conn[c].pc = "insert"
    /\ next_id <= MaxRows
    /\ LET update == NewUpdate(conn[c].request, nextval(next_id)) IN
       /\ conn' = [conn EXCEPT ![c] =
                    [pc |-> "commit", request |-> conn[c].request, update |-> update]]
       /\ insert_log' = Append(insert_log, update.id)
    /\ next_id' = next_id + 1
    /\ UNCHANGED <<API_TOKEN, kpi_master, kpi_updates, response>>

\* ... then COMMIT makes the row visible.
Commit(c) ==
    /\ conn[c].pc = "commit"
    /\ kpi_updates' = InsertRow(kpi_updates, conn[c].update)
    /\ conn' = [conn EXCEPT ![c] =
                 [pc |-> "refresh", request |-> conn[c].request, id |-> conn[c].update.id]]
    /\ UNCHANGED <<API_TOKEN, kpi_master, next_id, response, insert_log>>

\* db.refresh(update) and the return statement.
Refresh(c) ==
    /\ conn[c].pc = "refresh"
    /\ conn' = [conn EXCEPT ![c] =
                 Done(conn[c].request,
                      SubmitOk(CHOOSE u \in kpi_updates : u.id = conn[c].id))]
    /\ UNCHANGED <<API_TOKEN, kpi_master, kpi_updates, next_id, response, insert_log>>

ConcInit ==
    /\ API_TOKEN = Some("s3cr3t")
    /\ kpi_master = Catalog
    /\ kpi_updates = {}
    /\ next_id = 1
    /\ response = [op |-> "none", status_code |-> 0, body |-> None]
    /\ conn = [c \in Conns |-> Idle]
    /\ insert_log = <<>>

ConcNext ==
    \/ \E c \in Conns, request \in ConcRequest : Receive(c, request)
    \/ \E c \in Conns : Lookup(c)
    \/ \E c \in Conns : Check(c)
    \/ \E c \in Conns : Insert(c)
    \/ \E c \in Conns : Commit(c)
    \/ \E c \in Conns : Refresh(c)

ConcSpec == ConcInit /\ [][ConcNext]_vars

----------------------------------------------------------------------------
(* Vocabulary of the properties *)

\* The caller presents the configured secret; no header does when none is configured.
Authorized(authorization) ==
    API_TOKEN # None /\ authorization = Some("Bearer " \o API_TOKEN[1])

KpiExists(id) == \E k \in kpi_master : k.kpi_id = id

KpiOwnedBy(id, slug) == \E k \in kpi_master : k.kpi_id = id /\ k.fungsi_slug = slug

Carries(u, request) ==
    /\ u.kpi_id = request.kpi_id
    /\ u.fungsi_slug = request.fungsi_slug
    /\ u.period = request.period
    /\ u.value = request.value
    /\ u.link_evidence = request.link_evidence
    /\ u.note = request.note

StoresUnchanged == kpi_master' = kpi_master /\ kpi_updates' = kpi_updates

----------------------------------------------------------------------------
(* C1: an authorized submit naming an existing KPI with its owning unit's slug
   adds exactly one row, carrying the submitted fields, status "submitted",
   NULL reviewer and review timestamp; every earlier row is kept as it was;
   the response returns the new row's id and status "submitted". *)
C1_SubmitCreatesOneRow ==
    [][\A request \in KPIUpdateRequest :
         ( /\ Authorized(request.authorization)
           /\ KpiOwnedBy(request.kpi_id, request.fungsi_slug)
           /\ add_kpi_update(request) )
         => /\ Cardinality(kpi_updates') = Cardinality(kpi_updates) + 1
            /\ kpi_updates \subseteq kpi_updates'
            /\ \E u \in kpi_updates' \ kpi_updates :
                 /\ Carries(u, request)
                 /\ u.status = "submitted"
                 /\ u.reviewed_by = None
                 /\ u.reviewed_at = None
                 /\ \A v \in kpi_updates : v.id # u.id
                 /\ response'.status_code = 200
                 /\ response'.body.id = u.id
                 /\ response'.body.status = "submitted"
      ]_vars

C1_Witness ==
    /\ response.op = "add_kpi_update"
    /\ response.status_code = 200
    /\ \E u \in kpi_updates :
         /\ u.id = response.body.id
         /\ u.status = "submitted"
         /\ u.reviewed_by = None

(* C2 as stated: every submit whose kpi_id names no KPI definition fails with
   404 and leaves the update store as it was. *)
C2_AnySubmitUnknownKpiIs404 ==
    [][\A request \in KPIUpdateRequest :
         (~ KpiExists(request.kpi_id) /\ add_kpi_update(request))
         => response'.status_code = 404 /\ kpi_updates' = kpi_updates
      ]_vars

(* C2 amended: every authorized submit whose kpi_id names no KPI definition
   fails with 404; every submit whose kpi_id names no KPI definition, authorized
   or not, leaves the update store as it was. *)
C2_AuthorizedSubmitUnknownKpiIs404 ==
    [][\A request \in KPIUpdateRequest :
         (~ KpiExists(request.kpi_id) /\ add_kpi_update(request))
         => /\ kpi_updates' = kpi_updates
            /\ Authorized(request.authorization) => response'.status_code = 404
      ]_vars

C2_Witness ==
    /\ response.op = "add_kpi_update"
    /\ response.status_code = 404
    /\ response.body.detail = "KPI not found"

(* C3 as stated: every submit naming an existing KPI with another unit's slug
   fails with 403 and leaves the update store as it was. *)
C3_AnySubmitForeignSlugIs403 ==
    [][\A request \in KPIUpdateRequest :
         ( /\ KpiExists(request.kpi_id)
           /\ ~ KpiOwnedBy(request.kpi_id, request.fungsi_slug)
           /\ add_kpi_update(request) )
         => response'.status_code = 403 /\ kpi_updates' = kpi_updates
      ]_vars

(* C3 amended: every authorized submit naming an existing KPI with another
   unit's slug fails with 403; every such submit, authorized or not, leaves the
   update store as it was. *)
C3_AuthorizedSubmitForeignSlugIs403 ==
    [][\A request \in KPIUpdateRequest :
         ( /\ KpiExists(request.kpi_id)
           /\ ~ KpiOwnedBy(request.kpi_id, request.fungsi_slug)
           /\ add_kpi_update(request) )
         => /\ kpi_updates' = kpi_updates
            /\ Authorized(request.authorization) => response'.status_code = 403
      ]_vars

C3_Witness ==
    /\ response.op = "add_kpi_update"
    /\ response.status_code = 403

(* C4: a submit or review whose Authorization header is absent or is not
   "Bearer <configured secret>" fails with 401 and leaves both stores as they
   were, whatever the secret's configuration, an unset secret included; every
   read route answers 200 without a credential. *)
C4_GateGuardsExactlyTheWrites ==
    [][ /\ \A request \in KPIUpdateRequest :
             (~ Authorized(request.authorization) /\ add_kpi_update(request))
             => response'.status_code = 401 /\ StoresUnchanged
        /\ \A request \in ReviewRequest :
             (~ Authorized(request.authorization) /\ review(request))
             => response'.status_code = 401 /\ StoresUnchanged
        /\ root(None) => response'.status_code = 200
        /\ get_kpi(None) => response'.status_code = 200
        /\ \A s \in Slugs :
             /\ get_kpi_by_fungsi(None, s) => response'.status_code = 200
             /\ get_kpi_updates_by_fungsi(None, s) => response'.status_code = 200
             /\ get_kpi_master_by_fungsi(None, s) => response'.status_code = 200
      ]_vars

(* C5: an authorized review of an existing submission with new status approved
   or rejected sets its status to the new status, its reviewer to the given
   identity and its review timestamp to a non-NULL value, changes no other
   field and no other row, and the updates-by-unit query for the submission's
   unit then returns it with the new status; an authorized review of an id that
   names no submission fails with 404. *)
C5_ReviewSetsDecision ==
    [][\A request \in ReviewRequest :
         (Authorized(request.authorization) /\ review(request))
         => IF \E u \in kpi_updates : u.id = request.update_id
            THEN request.status \in {"approved", "rejected"}
                 => LET old == CHOOSE u \in kpi_updates : u.id = request.update_id IN
                    /\ response'.status_code = 200
                    /\ \E new \in kpi_updates' :
                         /\ new.id = old.id
                         /\ new.status = request.status
                         /\ new.reviewed_by = Some(request.reviewed_by)
                         /\ new.reviewed_at # None
                         /\ [new EXCEPT !.status = old.status,
                                        !.reviewed_by = old.reviewed_by,
                                        !.reviewed_at = old.reviewed_at] = old
                         /\ kpi_updates' \ {new} = kpi_updates \ {old}
                    /\ \E r \in UpdatesByFungsi(kpi_updates', old.fungsi_slug) :
                         r.id = old.id /\ r.status = request.status
            ELSE response'.status_code = 404 /\ kpi_updates' = kpi_updates
      ]_vars

C5_Witness ==
    /\ response.op = "review"
    /\ response.status_code = 200
    /\ \E u \in kpi_updates :
         /\ u.id = response.body.id
         /\ u.status = "approved"
         /\ u.reviewed_by = Some("manager")
         /\ u.reviewed_at # None

StatusInEnum == \A u \in kpi_updates : u.status \in {"submitted", "approved", "rejected"}

(* C6 as stated: every review of an existing submission with a new status
   outside {approved, rejected} fails with 400 and leaves the submission as it
   was; every submission's status is always submitted, approved or rejected. *)
C6_AnyReviewBadStatusIs400 ==
    /\ [][\A request \in ReviewRequest :
            ( /\ \E u \in kpi_updates : u.id = request.update_id
              /\ request.status \notin {"approved", "rejected"}
              /\ review(request) )
            => response'.status_code = 400 /\ kpi_updates' = kpi_updates
         ]_vars
    /\ []StatusInEnum

(* C6 amended: every authorized review of an existing submission with a new
   status outside {approved, rejected} fails with 400; every such review,
   authorized or not, leaves the submission as it was; every submission's status
   is always submitted, approved or rejected. *)
C6_AuthorizedReviewBadStatusIs400 ==
    /\ [][\A request \in ReviewRequest :
            ( /\ \E u \in kpi_updates : u.id = request.update_id
              /\ request.status \notin {"approved", "rejected"}
              /\ review(request) )
            => /\ kpi_updates' = kpi_updates
               /\ Authorized(request.authorization) => response'.status_code = 400
         ]_vars
    /\ []StatusInEnum

C6_Witness ==
    /\ response.op = "review"
    /\ response.status_code = 400
    /\ kpi_updates # {}

(* C7: a successful submit for a (kpi_id, period) that already has a row adds a
   further row under an id no earlier row has and leaves every earlier row as it
   was; the store holds as many rows, under pairwise different ids, as submits
   have succeeded. *)
C7_ResubmitAddsARow ==
    /\ [][\A request \in KPIUpdateRequest :
            ( /\ \E u \in kpi_updates :
                   u.kpi_id = request.kpi_id /\ u.period = request.period
              /\ add_kpi_update(request)
              /\ response'.status_code = 200 )
            => /\ kpi_updates \subseteq kpi_updates'
               /\ Cardinality(kpi_updates') = Cardinality(kpi_updates) + 1
               /\ \A u \in kpi_updates : u.id # response'.body.id
         ]_vars
    /\ [](/\ Cardinality(kpi_updates) = Len(insert_log)
          /\ \A u, v \in kpi_updates : u.id = v.id => u = v)

C7_Witness ==
    /\ response.op = "add_kpi_update"
    /\ response.status_code = 200
    /\ \E u, v \in kpi_updates :
         /\ u.id # v.id
         /\ u.kpi_id = v.kpi_id /\ u.period = v.period /\ u.value = v.value

(* C8: the catalog always equals its initial content, and no step removes a
   submission: every row present before a step is present, under its id,
   after it. *)
C8_CatalogFrozenNoDelete ==
    /\ [](kpi_master = Catalog)
    /\ [][\A u \in kpi_updates : \E v \in kpi_updates' : v.id = u.id]_vars

C8_Witness ==
    /\ kpi_master = Catalog
    /\ Cardinality(kpi_updates) = MaxRows
    /\ \E u \in kpi_updates : u.status = "rejected"
    /\ response.op = "add_kpi_update"
    /\ response.status_code = 403

(* C9: every submission row references a kpi_id of the catalog and carries that
   definition's owning-unit slug, so the updates-by-unit query for a unit never
   returns a submission against another unit's KPI. *)
C9_RowsMatchTheirDefinition ==
    /\ \A u \in kpi_updates : KpiOwnedBy(u.kpi_id, u.fungsi_slug)
    /\ \A s \in Slugs : \A u \in UpdatesByFungsi(kpi_updates, s) :
         \A k \in kpi_master : k.kpi_id = u.kpi_id => k.fungsi_slug = s

C9_Witness ==
    /\ response.op = "get_kpi_updates_by_fungsi"
    /\ response.body # {}
    /\ \E u, v \in kpi_updates : u.fungsi_slug # v.fungsi_slug

Succeeded(c) == conn[c].pc = "done" /\ conn[c].response.status_code = 200

(* C10: under every interleaving of the steps of concurrent submits, every
   request that passed validation and completed has its own row carrying its
   fields, no row is lost or merged, the rows have pairwise different ids, and
   ids increase in the order of the INSERT statements. *)
C10_ConcurrentSubmitsIndependent ==
    /\ \A i, j \in 1..Len(insert_log) : i < j => insert_log[i] < insert_log[j]
    /\ \A u, v \in kpi_updates : u.id = v.id => u = v
    /\ Cardinality(kpi_updates)
         = Cardinality({c \in Conns : conn[c].pc = "refresh" \/ Succeeded(c)})
    /\ \A c \in Conns :
         conn[c].pc = "done"
         => ( Succeeded(c) <=>
                /\ Authorized(conn[c].request.authorization)
                /\ KpiOwnedBy(conn[c].request.kpi_id, conn[c].request.fungsi_slug) )
    /\ \A c \in Conns :
         Succeeded(c)
         => /\ \E u \in kpi_updates :
                 u.id = conn[c].response.body.id /\ Carries(u, conn[c].request)
            /\ \A d \in Conns \ {c} :
                 Succeeded(d) => conn[d].response.body.id # conn[c].response.body.id

\* Connection 2 ran its INSERT first, connection 1 committed first.
C10_Witness ==
    /\ conn[1].pc = "refresh"
    /\ conn[2].pc = "commit"
    /\ conn[1].request = conn[2].request
    /\ conn[2].update.id < conn[1].id
    /\ \E u \in kpi_updates : u.id = conn[1].id

====
